---------------------------- MODULE Spec2Model ----------------------------
(***************************************************************************)
(* Task orchestration and service lifecycle of the edge-ai-tuning-kit      *)
(* backend: the task record store and its PATCH merge, the training job    *)
(* life cycle with the crash recovery scanner, cooperative abort of        *)
(* dataset generation, the deployment packager and the serving containers. *)
(***************************************************************************)
EXTENDS Integers, Sequences, FiniteSets, TLC

\* ------------------------------------------------------------------ bounds
MaxTasks == 1
MaxJobs == 2
MaxPatches == 2
MaxChunks == 2
NumGenerations == 2
MaxFiles == 2
MaxFileSize == 2
MaxRuns == 2
MaxRequests == 2

TaskIds == 1..MaxTasks
JobIds == 1..MaxJobs
Workers == {"w1", "w2"}

\* models/tasks.py: TasksStatus
TasksStatus == {"PENDING", "STARTED", "SUCCESS", "FAILURE", "RETRY", "REVOKED"}

\* top-level keys a worker writes into `results`, and the values used here
ResultKeys == {"status", "stage", "metrics"}
ResultVals == {"x", "y"}

\* the values the training worker and the scanner write
StageMsg == "Training Model"
FailureMsg == "Training failure"
OomMsg == "Training Error (OOM)"
MetricsVal == "train_history"

VARIABLES
    tasks,          \* tasks table: id -> row (exists, status, results, celery_task_id)
    running_task,   \* running_task table, the single row with id 1
    jobs,           \* broker and result backend: job handle -> (task, place, state, revoked)
    worker,         \* worker processes: (up, job, pc)
    srv,            \* the restart_task request in flight on the server
    patch_log,      \* the `results` objects PATCHed to task 1, in order
    oom_reported    \* the job handles the scanner has written FAILURE for

taskVars == <<tasks, running_task, jobs, worker, srv, patch_log, oom_reported>>

VARIABLES
    text_chunks,         \* the chunks handed to the generation job, by kind
    generation_metadata, \* dataset.generation_metadata and who wrote it last
    gen,                 \* the generation job: position, chunk index, rows saved of it
    aborted,             \* the abort flag of the generation job (AbortableAsyncResult)
    data_rows,           \* chunk -> number of its rows persisted in the dataset
    abort_snap           \* what was persisted at the moment the abort flag was set

genVars == <<text_chunks, generation_metadata, gen, aborted, data_rows, abort_snap>>

VARIABLES
    sources,        \* the source trees of the packager, as lists of file sizes
    archive,        \* the zip file at the target path: (exists, entries)
    pack,           \* the prepare_model job and its PrepareDeploymentFile object
    progress_log,   \* the download_progress values PATCHed in the current run
    archive_writes  \* the zip_file.write calls of the current run

packVars == <<sources, archive, pack, progress_log, archive_writes>>

VARIABLES
    containers,     \* container runtime: (service, model id) -> absent, stopped, running
    deployments,    \* deployments table: records (model_id, host_port)
    weights,        \* the model ids whose checkpoints/ov_model directory exists
    image,          \* whether the serving image is present locally
    response,       \* the response of the last start, stop or check call
    runtime         \* the container-runtime calls the last request issued

serveVars == <<containers, deployments, weights, image, response, runtime>>

VARIABLES
    host,            \* what create_task finds: free storage, the dataset, its export
    create_response, \* the answer of the last create_task call
    inflight         \* the start_inference_node requests that await the runtime

admitVars == <<host, create_response, inflight>>

vars == <<taskVars, genVars, packVars, serveVars, admitVars>>

\* the variables the training worker and the task routes other than
\* create_task leave alone
notTaskVars == <<genVars, packVars, serveVars, admitVars>>

\* the variables the generation job leaves alone
notGenVars == <<taskVars, packVars, serveVars, admitVars>>

\* the variables the packager leaves alone
notPackVars == <<taskVars, genVars, serveVars, admitVars>>

\* the variables the serving and inference services leave alone
notServeVars == <<taskVars, genVars, packVars, admitVars>>

\* ------------------------------------------------------- task record store
EmptyDict == <<>>

NoTask == [exists |-> FALSE, status |-> "PENDING", results |-> EmptyDict, celery_task_id |-> 0]

\* a merge that would replace the stored object wholesale
MergeDictOverwrite(old, new) == new

\* {**old, **new}: keys of new overwrite, other keys of old are kept
MergeDict(old, new) ==
    [k \in (DOMAIN old) \cup (DOMAIN new) |-> IF k \in DOMAIN new THEN new[k] ELSE old[k]]

\* TaskService.update_task: the row after PATCHing `data` (a record holding
\* the columns to set); a missing row is left alone ("No Task Found").
UpdateTask(store, id, data) ==
    IF id \notin DOMAIN store \/ ~store[id].exists
    THEN store
    ELSE LET task == store[id]
             merged == IF task.results # EmptyDict /\ "results" \in DOMAIN data
                       THEN [data EXCEPT !.results = MergeDict(task.results, data.results)]
                       ELSE data
         IN [store EXCEPT ![id] =
                [f \in DOMAIN task |-> IF f \in DOMAIN merged THEN merged[f] ELSE task[f]]]

\* every `results` object over the keys and values of the model
Dicts == UNION {[D -> ResultVals] : D \in SUBSET ResultKeys}

\* ------------------------------------------------------------ initial state
\* the queue and task name send_task gives a training job, which are those
\* the worker of worker/app.py consumes and registers
TrainerRoute == [queue |-> "trainer_queue", name |-> "celery_task:training"]

\* the queue the llm-finetuning-node training worker consumes and the task
\* name it registers
FinetuneRoute == [queue |-> "training_queue", name |-> "training_node:model_finetuning"]

NoRoute == [queue |-> "", name |-> ""]

NoJob == [task |-> 0, place |-> "unsent", state |-> "PENDING", revoked |-> FALSE,
          route |-> NoRoute]

\* no generation job has been requested
GenIdle ==
    /\ text_chunks = <<>>
    /\ generation_metadata = [val |-> "null", by |-> "server"]
    /\ gen = [pc |-> "none", i |-> 0, r |-> 0, load |-> "no"]
    /\ aborted = FALSE
    /\ data_rows = <<>>
    /\ abort_snap = [set |-> FALSE, in_loop |-> FALSE, rows |-> <<>>]

\* no packaging has been requested
PackIdle ==
    /\ sources = [ov_model |-> [exists |-> FALSE, files |-> <<>>], deployment |-> <<>>,
                  chroma |-> <<>>, models |-> 0]
    /\ archive = [exists |-> FALSE, entries |-> <<>>]
    /\ pack = [pc |-> "idle", run |-> 0, idx |-> 0, bytes_written |-> 0, prev_progress |-> 0,
               total_size |-> 0, produced |-> FALSE, had_archive |-> FALSE]
    /\ progress_log = <<>>
    /\ archive_writes = 0

\* model ids, with one whose decimal digits start with those of another
ModelIds == {1, 12}

Services == {"serving", "evaluation"}

NoResponse == [op |-> "none", svc |-> "none", id |-> 0, was_running |-> FALSE, ran |-> FALSE,
               answered |-> TRUE, status |-> FALSE, message |-> ""]

\* the calls a request issued to the container runtime, those of them that
\* were not answered (an exception or a timeout), and the device profile of
\* the environment handed to containers.run
NoCalls == [calls |-> {}, failed |-> {}, device |-> "none"]

\* no container, no deployment record, nothing installed
ServeIdle ==
    /\ containers = [c \in Services \X ModelIds |-> "absent"]
    /\ deployments = {}
    /\ weights = {}
    /\ image = FALSE
    /\ response = NoResponse
    /\ runtime = NoCalls

\* more than 60 GB are free, the dataset exists and can be exported, or not
Hosts == [storage : BOOLEAN, dataset : BOOLEAN, export : BOOLEAN]

\* the requests the server handles at the same time
Requests == 1..MaxRequests

\* a request slot with no start_inference_node request in it
NoRequest == [pc |-> "idle", id |-> 0, services |-> {}]

\* a host on which create_task meets no obstacle; no call answered yet and
\* no request in flight
AdmitIdle ==
    /\ host = [storage |-> TRUE, dataset |-> TRUE, export |-> TRUE]
    /\ create_response = "none"
    /\ inflight = [r \in Requests |-> NoRequest]

\* container names, cut at the dots and dashes: CONTAINER_PREFIX + str(id) of
\* the DeploymentService and CONTAINER_PREFIX + "-" + str(id) of the
\* inference service
ContainerName(c) ==
    IF c[1] = "serving"
    THEN <<"edge-ai-tuning-kit", ".", "backend", ".", "serving", "-", ToString(c[2])>>
    ELSE <<"edge-ai-tuning-kit", ".", "backend", ".", "llm-finetuning", ".",
           "evaluation", "-", "node", "-", ToString(c[2])>>

\* the text remove_all_running_evaluation_container looks for in a name
EvaluationFilter == <<"edge-ai-tuning-kit", ".", "backend", ".", "evaluation">>

\* `needle in hay` of two texts
IsInfix(needle, hay) ==
    \E i \in 0..(Len(hay) - Len(needle)) : SubSeq(hay, i + 1, i + Len(needle)) = needle

\* DockerClient.remove_all_running_evaluation_container: every container
\* whose name holds the filter text is force-removed
RemoveAllRunningEvaluationContainer(cs) ==
    [c \in DOMAIN cs |-> IF IsInfix(EvaluationFilter, ContainerName(c)) THEN "absent" ELSE cs[c]]

InitTasks ==
    /\ GenIdle
    /\ PackIdle
    /\ ServeIdle
    /\ host \in Hosts
    /\ create_response = "none"
    /\ inflight = [r \in Requests |-> NoRequest]
    /\ tasks = [t \in TaskIds |-> NoTask]
    /\ running_task = [task_id |-> 0, celery_task_id |-> 0]
    /\ jobs = [j \in JobIds |-> NoJob]
    /\ worker = [w \in Workers |-> [up |-> TRUE, job |-> 0, pc |-> "idle"]]
    /\ srv = [pc |-> "idle", task |-> 0, job |-> 0]
    /\ patch_log = <<>>
    /\ oom_reported = {}

\* ----------------------------------------------------- PATCH /v1/tasks/{id}
\* routes/tasks.py update_task with a body carrying `results` (and possibly
\* `status`): the store is patched, and the body's results object is logged.
PatchTask(id, data) ==
    /\ tasks[id].exists
    /\ Len(patch_log) < MaxPatches
    /\ tasks' = UpdateTask(tasks, id, data)
    /\ patch_log' = Append(patch_log, data.results)
    /\ UNCHANGED <<running_task, jobs, worker, srv, oom_reported>>
    /\ UNCHANGED notTaskVars

PatchResults ==
    \E d \in Dicts : PatchTask(1, [results |-> d])

PatchStatusAndResults ==
    \E d \in Dicts, s \in {"STARTED", "SUCCESS", "FAILURE"} :
        PatchTask(1, [status |-> s, results |-> d])

\* the state right after create_task has stored task 1 with results = {}
InitMerge ==
    /\ AdmitIdle
    /\ GenIdle
    /\ PackIdle
    /\ ServeIdle
    /\ tasks = [t \in TaskIds |-> IF t = 1
                    THEN [exists |-> TRUE, status |-> "PENDING", results |-> EmptyDict,
                          celery_task_id |-> 1]
                    ELSE NoTask]
    /\ running_task = [task_id |-> 0, celery_task_id |-> 0]
    /\ jobs = [j \in JobIds |-> IF j = 1
                    THEN [task |-> 1, place |-> "queued", state |-> "PENDING", revoked |-> FALSE,
                          route |-> TrainerRoute]
                    ELSE NoJob]
    /\ worker = [w \in Workers |-> [up |-> TRUE, job |-> 0, pc |-> "idle"]]
    /\ srv = [pc |-> "idle", task |-> 0, job |-> 0]
    /\ patch_log = <<>>
    /\ oom_reported = {}

NextMerge == PatchResults \/ PatchStatusAndResults

SpecMerge == InitMerge /\ [][NextMerge]_vars

\* the patches of the log that carry key k
Carrying(k) == {i \in 1..Len(patch_log) : k \in DOMAIN patch_log[i]}

LastCarrying(k) == CHOOSE i \in Carrying(k) : \A j \in Carrying(k) : j <= i

\* C1: after any sequence of PATCHes carrying `results`, the stored results
\* hold exactly the keys ever patched, each with the value of the last patch
\* that carried it; keys a patch does not carry are preserved.
C1_ResultsMergedOneLevel ==
    /\ DOMAIN tasks[1].results = {k \in ResultKeys : Carrying(k) # {}}
    /\ \A k \in DOMAIN tasks[1].results :
          tasks[1].results[k] = patch_log[LastCarrying(k)][k]

\* {"status": x} then {"stage": y} has been patched: both keys are stored
C1_Witness ==
    /\ Len(patch_log) >= 2
    /\ patch_log[1] = [status |-> "x"]
    /\ patch_log[2] = [stage |-> "y"]
    /\ tasks[1].results = [status |-> "x", stage |-> "y"]

\* ------------------------------------------------------------ server routes
FreshTask(t) == ~tasks[t].exists /\ \A u \in TaskIds : u < t => tasks[u].exists

FreshJob(j) == jobs[j].place = "unsent" /\ \A i \in JobIds : i < j => jobs[i].place # "unsent"

\* celery_app.send_task(name="celery_task:training", queue='trainer_queue')
SendTask(j, t) == [jobs EXCEPT ![j] = [task |-> t, place |-> "queued", state |-> "PENDING",
                                      revoked |-> FALSE, route |-> TrainerRoute]]

\* a delete that stores nothing
ServiceDeleteTaskSkipped(store, id) == store

\* TaskService.delete_task: the row is kept with status REVOKED
ServiceDeleteTask(store, id) == UpdateTask(store, id, [status |-> "REVOKED"])

\* POST /v1/tasks: refused without storage; else
\* remove_all_running_evaluation_container runs; refused without the
\* dataset; else the row is created PENDING with results = {}; when the
\* export of the dataset fails the row is deleted again, else the job is
\* published and its handle stored.
CreateTask ==
    \E t \in TaskIds, j \in JobIds :
        /\ FreshTask(t)
        /\ FreshJob(j)
        /\ LET admitted == host.storage /\ host.dataset
               created == [tasks EXCEPT ![t] = [exists |-> TRUE, status |-> "PENDING",
                                                results |-> EmptyDict, celery_task_id |-> 0]]
           IN /\ tasks' = IF ~admitted THEN tasks
                          ELSE IF ~host.export THEN ServiceDeleteTask(created, t)
                          ELSE UpdateTask(created, t, [celery_task_id |-> j])
              /\ jobs' = IF admitted /\ host.export THEN SendTask(j, t) ELSE jobs
              /\ create_response' =
                    IF ~host.storage THEN "No enough storage available to create task"
                    ELSE IF ~host.dataset THEN "Dataset not available"
                    ELSE IF ~host.export THEN "Failed to create dataset for task"
                    ELSE "created"
        /\ containers' = IF host.storage
                          THEN RemoveAllRunningEvaluationContainer(containers)
                          ELSE containers
        /\ UNCHANGED <<running_task, worker, srv, patch_log, oom_reported, host, inflight>>
        /\ UNCHANGED <<deployments, weights, image, response, runtime>>
        /\ UNCHANGED <<genVars, packVars>>

\* POST /v1/tasks/{id}/restart, first half: the job is published
RestartSend ==
    \E t \in TaskIds, j \in JobIds :
        /\ srv.pc = "idle"
        /\ tasks[t].exists
        /\ FreshJob(j)
        /\ jobs' = SendTask(j, t)
        /\ srv' = [pc |-> "restart_sent", task |-> t, job |-> j]
        /\ UNCHANGED <<tasks, running_task, worker, patch_log, oom_reported>>
        /\ UNCHANGED notTaskVars

\* the columns restart_task writes
RestartData(j) == [status |-> "PENDING", celery_task_id |-> j]

\* POST /v1/tasks/{id}/restart, second half: status and handle are stored
RestartUpdate ==
    /\ srv.pc = "restart_sent"
    /\ tasks' = UpdateTask(tasks, srv.task, RestartData(srv.job))
    /\ srv' = [pc |-> "idle", task |-> 0, job |-> 0]
    /\ UNCHANGED <<running_task, jobs, worker, patch_log, oom_reported>>
    /\ UNCHANGED notTaskVars

\* a revoke that never reaches the broker
RevokeDropped(js, h) == js

\* AsyncResult(h).revoke(terminate=True, signal='SIGKILL'): the request is
\* broadcast and the call returns; a job that has ended has nothing to stop
Revoke(js, h) == [js EXCEPT ![h].revoked = js[h].place # "gone"]

\* DELETE /v1/tasks/{id}: revoke(terminate=True, signal='SIGKILL') of the
\* recorded handle, then TaskService.delete_task stores REVOKED.
DeleteTask ==
    \E t \in TaskIds :
        /\ tasks[t].exists
        /\ jobs' = IF tasks[t].celery_task_id # 0
                   THEN Revoke(jobs, tasks[t].celery_task_id)
                   ELSE jobs
        /\ tasks' = ServiceDeleteTask(tasks, t)
        /\ UNCHANGED <<running_task, worker, srv, patch_log, oom_reported>>
        /\ UNCHANGED notTaskVars

\* ------------------------------------------------------------ broker, workers
\* a job that no worker holds any more; the result backend keeps its state
Gone(j, state) == [task |-> jobs[j].task, place |-> "gone", state |-> state, revoked |-> FALSE,
                   route |-> jobs[j].route]

Idle == [up |-> TRUE, job |-> 0, pc |-> "idle"]

Down == [up |-> FALSE, job |-> 0, pc |-> "idle"]

\* the revoke broadcast reaches the workers: a queued job is discarded, a
\* running one is killed with its pool process; no task hook runs.
RevokeDelivered ==
    \E j \in JobIds :
        /\ jobs[j].revoked
        /\ jobs[j].place \in {"queued", "running"}
        /\ jobs' = [jobs EXCEPT ![j] = Gone(j, "REVOKED")]
        /\ worker' = [w \in Workers |-> IF worker[w].job = j THEN Idle ELSE worker[w]]
        /\ UNCHANGED <<tasks, running_task, srv, patch_log, oom_reported>>
        /\ UNCHANGED notTaskVars

\* on_training_start (before_start hook): PATCH /celery/running_task
OnTrainingStart(j) == [task_id |-> jobs[j].task, celery_task_id |-> j]

\* a worker takes the oldest queued job: the backend tracks it as STARTED
\* (task_track_started) and the before_start hook writes the marker.
JobStart ==
    \E w \in Workers, j \in JobIds :
        /\ worker[w] = Idle
        /\ jobs[j].place = "queued"
        /\ jobs[j].route = TrainerRoute
        /\ \A i \in JobIds : i < j => ~(jobs[i].place = "queued" /\ jobs[i].route = TrainerRoute)
        /\ jobs' = [jobs EXCEPT ![j].place = "running", ![j].state = "STARTED"]
        /\ running_task' = OnTrainingStart(j)
        /\ worker' = [worker EXCEPT ![w] = [up |-> TRUE, job |-> j, pc |-> "before_start"]]
        /\ UNCHANGED <<tasks, srv, patch_log, oom_reported>>
        /\ UNCHANGED notTaskVars

\* training(): tasks_client.update_task(task_id, {"status": "STARTED"})
TrainingStarted ==
    \E w \in Workers :
        /\ worker[w].pc = "before_start"
        /\ tasks' = UpdateTask(tasks, jobs[worker[w].job].task, [status |-> "STARTED"])
        /\ worker' = [worker EXCEPT ![w].pc = "running"]
        /\ UNCHANGED <<running_task, jobs, srv, patch_log, oom_reported>>
        /\ UNCHANGED notTaskVars

\* train.py: on_training_callback(task_id, {"results": {"stage": ...}})
TrainingProgress ==
    \E w \in Workers :
        /\ worker[w].pc = "running"
        /\ tasks' = UpdateTask(tasks, jobs[worker[w].job].task,
                               [results |-> [stage |-> StageMsg]])
        /\ worker' = [worker EXCEPT ![w].pc = "reported"]
        /\ UNCHANGED <<running_task, jobs, srv, patch_log, oom_reported>>
        /\ UNCHANGED notTaskVars

\* train.py ends with {'status': 'SUCCESS', 'results': train_history}; the
\* script exits 0 and the backend records SUCCESS.
TrainingSucceeds ==
    \E w \in Workers :
        /\ worker[w].pc \in {"running", "reported"}
        /\ tasks' = UpdateTask(tasks, jobs[worker[w].job].task,
                               [status |-> "SUCCESS", results |-> [metrics |-> MetricsVal]])
        /\ jobs' = [jobs EXCEPT ![worker[w].job] = Gone(worker[w].job, "SUCCESS")]
        /\ worker' = [worker EXCEPT ![w] = Idle]
        /\ UNCHANGED <<running_task, srv, patch_log, oom_reported>>
        /\ UNCHANGED notTaskVars

\* training() raises (missing train.yml, non-zero exit code): the backend
\* records FAILURE and on_training_failure PATCHes the task.
TrainingFails ==
    \E w \in Workers :
        /\ worker[w].pc \in {"running", "reported"}
        /\ tasks' = UpdateTask(tasks, jobs[worker[w].job].task,
                               [status |-> "FAILURE", results |-> [status |-> FailureMsg]])
        /\ jobs' = [jobs EXCEPT ![worker[w].job] = Gone(worker[w].job, "FAILURE")]
        /\ worker' = [worker EXCEPT ![w] = Idle]
        /\ UNCHANGED <<running_task, srv, patch_log, oom_reported>>
        /\ UNCHANGED notTaskVars

\* a worker process is killed (out of memory, node loss): its job is lost,
\* no hook runs and the backend keeps the last state it stored.
WorkerKilled ==
    \E w \in Workers :
        /\ worker[w].up
        /\ worker' = [worker EXCEPT ![w] = Down]
        /\ jobs' = IF worker[w].job # 0
                   THEN [jobs EXCEPT ![worker[w].job] = Gone(worker[w].job, jobs[worker[w].job].state)]
                   ELSE jobs
        /\ UNCHANGED <<tasks, running_task, srv, patch_log, oom_reported>>
        /\ UNCHANGED notTaskVars

\* ----------------------------------------------------- crash recovery scanner
\* inspector.active(): the handles some worker is executing
ActiveJobs == {worker[w].job : w \in Workers} \ {0}

\* RunningTaskService.get_running_task: the task row the marker refers to
MarkedTask == running_task.task_id

\* the handle verify_last_running_tasks examines: response['data']['celery_task_id']
LastRunningHandle ==
    IF MarkedTask \in TaskIds /\ tasks[MarkedTask].exists
    THEN tasks[MarkedTask].celery_task_id
    ELSE 0

\* the scanner writes FAILURE: result.status not in [SUCCESS, FAILURE]; a
\* handle found in the active list is logged and examined all the same
ScannerReports ==
    /\ LastRunningHandle # 0
    /\ jobs[LastRunningHandle].state \notin {"SUCCESS", "FAILURE"}

\* init_worker on worker_ready: verify_last_running_tasks, then the worker serves
WorkerBoot ==
    \E w \in Workers :
        /\ ~worker[w].up
        /\ worker' = [worker EXCEPT ![w] = Idle]
        /\ tasks' = IF ScannerReports
                    THEN UpdateTask(tasks, MarkedTask,
                                    [status |-> "FAILURE", results |-> [status |-> OomMsg]])
                    ELSE tasks
        /\ oom_reported' = IF ScannerReports
                           THEN oom_reported \cup {LastRunningHandle}
                           ELSE oom_reported
        /\ UNCHANGED <<running_task, jobs, srv, patch_log>>
        /\ UNCHANGED notTaskVars

NextTasks ==
    \/ CreateTask
    \/ RestartSend
    \/ RestartUpdate
    \/ DeleteTask
    \/ RevokeDelivered
    \/ JobStart
    \/ TrainingStarted
    \/ TrainingProgress
    \/ TrainingSucceeds
    \/ TrainingFails
    \/ WorkerKilled
    \/ WorkerBoot

SpecTasks == InitTasks /\ [][NextTasks]_vars

TypeOKTasks ==
    \A t \in TaskIds : tasks[t].status \in TasksStatus

\* C2: the step that completes a restart leaves the task with status PENDING,
\* empty results and the handle of the freshly published job, which differs
\* from the handle stored before.
C2_RestartResetsTask ==
    [][(srv.pc = "restart_sent" /\ srv'.pc = "idle") =>
          /\ tasks'[srv.task].status = "PENDING"
          /\ tasks'[srv.task].results = EmptyDict
          /\ tasks'[srv.task].celery_task_id = srv.job
          /\ tasks'[srv.task].celery_task_id # tasks[srv.task].celery_task_id]_vars

\* C3: the stored status is always a member of TasksStatus, and every step
\* that moves a task into STARTED starts from PENDING or RETRY.
C3_StartedOnlyFromPendingOrRetry ==
    /\ []TypeOKTasks
    /\ [][\A t \in TaskIds :
            (tasks'[t].status = "STARTED" /\ tasks[t].status # "STARTED")
                => tasks[t].status \in {"PENDING", "RETRY"}]_vars

\* a worker comes up: init_worker runs the scanner
BootStep == \E w \in Workers : ~worker[w].up /\ worker'[w].up

\* the marked job is orphaned: no worker holds it and it did not finish
Orphaned ==
    /\ LastRunningHandle # 0
    /\ LastRunningHandle \notin ActiveJobs
    /\ jobs[LastRunningHandle].place = "gone"
    /\ jobs[LastRunningHandle].state \notin {"SUCCESS", "FAILURE"}

\* C4: a boot that finds the marked job orphaned stores FAILURE with the OOM
\* message, and no boot does so for a job the scanner has reported before.
C4_OomReportedOnce ==
    [][(BootStep /\ Orphaned) =>
          /\ tasks'[MarkedTask].status = "FAILURE"
          /\ tasks'[MarkedTask].results.status = OomMsg
          /\ LastRunningHandle \notin oom_reported]_vars

\* C5: a boot that finds the marked handle in the broker's active list
\* changes no task.
C5_ActiveJobLeftAlone ==
    [][(BootStep /\ LastRunningHandle \in ActiveJobs) => tasks' = tasks]_vars

\* no task has been created and the workers are idle
TasksIdle ==
    /\ AdmitIdle
    /\ tasks = [t \in TaskIds |-> NoTask]
    /\ running_task = [task_id |-> 0, celery_task_id |-> 0]
    /\ jobs = [j \in JobIds |-> NoJob]
    /\ worker = [w \in Workers |-> Idle]
    /\ srv = [pc |-> "idle", task |-> 0, job |-> 0]
    /\ patch_log = <<>>
    /\ oom_reported = {}

\* ------------------------------------------------- dataset generation job
\* what the job meets in a chunk: at most 150 characters, judged not
\* meaningful, an exception in the model calls, generate_chat_data giving up
\* (is_success False), or num_generations conversations
ChunkKinds == {"short", "meaningless", "raises", "failed", "ok"}

Chunks == 1..MaxChunks

\* the rows the job persists for chunk u when nothing interrupts it
RowsOf(u) == IF text_chunks[u] = "ok" THEN NumGenerations ELSE 0

\* update_dataset_metadata_cb(dataset_id, metadata) called by the job
JobWrites(val) == [val |-> val, by |-> "job"]

\* the dataset holds embedded chunks; nothing has been generated yet
InitGen ==
    /\ TasksIdle
    /\ PackIdle
    /\ ServeIdle
    /\ text_chunks \in [Chunks -> ChunkKinds]
    /\ generation_metadata = [val |-> "null", by |-> "server"]
    /\ gen = [pc |-> "none", i |-> 0, r |-> 0, load |-> "no"]
    /\ aborted = FALSE
    /\ data_rows = [u \in Chunks |-> 0]
    /\ abort_snap = [set |-> FALSE, in_loop |-> FALSE, rows |-> [u \in Chunks |-> 0]]

\* DataService.generate_document_qa: refused while generation_metadata is set;
\* the job is published and 'Waiting for task to start.' stored
GenerateDocumentQa ==
    /\ gen.pc = "none"
    /\ generation_metadata.val = "null"
    /\ gen' = [gen EXCEPT !.pc = "queued"]
    /\ generation_metadata' = [val |-> "Waiting for task to start.", by |-> "server"]
    /\ UNCHANGED <<text_chunks, aborted, data_rows, abort_snap>>
    /\ UNCHANGED notGenVars

\* the chunks whose rows are all persisted
Persisted == {u \in Chunks : RowsOf(u) > 0 /\ data_rows[u] = RowsOf(u)}

\* DataService.stop_data_generation: abort_celery_task, then metadata = None
StopDataGeneration ==
    /\ generation_metadata.val # "null"
    /\ aborted' = TRUE
    /\ generation_metadata' = [val |-> "null", by |-> "server"]
    /\ abort_snap' = IF abort_snap.set
                     THEN abort_snap
                     ELSE [set |-> TRUE, in_loop |-> gen.i >= 1,
                           rows |-> [u \in Chunks |-> IF u \in Persisted THEN data_rows[u]
                                                      ELSE 0]]
    /\ UNCHANGED <<text_chunks, gen, data_rows>>
    /\ UNCHANGED notGenVars

\* the dataset worker takes the job
GenJobStart ==
    /\ gen.pc = "queued"
    /\ gen' = [gen EXCEPT !.pc = "task_check1"]
    /\ UNCHANGED <<text_chunks, generation_metadata, aborted, data_rows, abort_snap>>
    /\ UNCHANGED notGenVars

\* document_data_generation: the two abort checks of the task body; both
\* return False without touching the metadata
TaskCheck ==
    /\ gen.pc \in {"task_check1", "task_check2"}
    /\ gen' = [gen EXCEPT !.pc = IF aborted THEN "ended"
                                 ELSE IF gen.pc = "task_check1" THEN "task_check2"
                                 ELSE "check_before_status"]
    /\ UNCHANGED <<text_chunks, generation_metadata, aborted, data_rows, abort_snap>>
    /\ UNCHANGED notGenVars

\* document_data_generation: a ChromaClient call raises (after the first or
\* after the second check); the except branch returns False
TaskRaises ==
    /\ gen.pc \in {"task_check2", "check_before_status"}
    /\ gen' = [gen EXCEPT !.pc = "ended"]
    /\ UNCHANGED <<text_chunks, generation_metadata, aborted, data_rows, abort_snap>>
    /\ UNCHANGED notGenVars

\* generate_sft_dataset_from_chunks, check before updating the status: an
\* aborted job stores None and returns, otherwise "LOADING MODEL" is stored
CheckBeforeStatus ==
    /\ gen.pc = "check_before_status"
    /\ IF aborted
       THEN /\ generation_metadata' = JobWrites("null")
            /\ gen' = [gen EXCEPT !.pc = "ended"]
       ELSE /\ generation_metadata' = JobWrites("LOADING MODEL")
            /\ gen' = [gen EXCEPT !.pc = "check_before_load"]
    /\ UNCHANGED <<text_chunks, aborted, data_rows, abort_snap>>
    /\ UNCHANGED notGenVars

\* check before model loading: an aborted job stores None and returns
CheckBeforeLoad ==
    /\ gen.pc = "check_before_load"
    /\ IF aborted
       THEN /\ generation_metadata' = JobWrites("null")
            /\ gen' = [gen EXCEPT !.pc = "ended"]
       ELSE /\ gen' = [gen EXCEPT !.pc = "load_model"]
            /\ UNCHANGED generation_metadata
    /\ UNCHANGED <<text_chunks, aborted, data_rows, abort_snap>>
    /\ UNCHANGED notGenVars

\* SyntheticDataGenerator(...): the model is loaded, or the constructor raises
\* and the exception leaves the function before its try block is entered
LoadModel ==
    /\ gen.pc = "load_model"
    /\ \E ok \in BOOLEAN :
          gen' = IF ok THEN [gen EXCEPT !.pc = "next_chunk", !.load = "ok"]
                 ELSE [gen EXCEPT !.pc = "ended", !.load = "failed"]
    /\ UNCHANGED <<text_chunks, generation_metadata, aborted, data_rows, abort_snap>>
    /\ UNCHANGED notGenVars

\* for i, chunk in enumerate(text_chunks): abort check, then a short chunk is
\* skipped and any other has "GENERATING DATA" stored
NextChunk ==
    /\ gen.pc = "next_chunk"
    /\ IF gen.i = MaxChunks \/ aborted
       THEN /\ gen' = [gen EXCEPT !.pc = "finally"]
            /\ UNCHANGED generation_metadata
       ELSE IF text_chunks[gen.i + 1] = "short"
       THEN /\ gen' = [gen EXCEPT !.i = @ + 1]
            /\ UNCHANGED generation_metadata
       ELSE /\ gen' = [gen EXCEPT !.i = @ + 1, !.r = 0, !.pc = "check_meaningful"]
            /\ generation_metadata' = JobWrites("GENERATING DATA")
    /\ UNCHANGED <<text_chunks, aborted, data_rows, abort_snap>>
    /\ UNCHANGED notGenVars

\* abort check, then generator.is_chunk_meaningful: an exception or a chunk
\* that is not meaningful continues with the next chunk
CheckMeaningful ==
    /\ gen.pc = "check_meaningful"
    /\ gen' = [gen EXCEPT !.pc = IF aborted THEN "finally"
                                 ELSE IF text_chunks[gen.i] \in {"meaningless", "raises"}
                                 THEN "next_chunk"
                                 ELSE "check_generate"]
    /\ UNCHANGED <<text_chunks, generation_metadata, aborted, data_rows, abort_snap>>
    /\ UNCHANGED notGenVars

\* abort check, then generator.generate_chat_data; is_success False breaks
GenerateChatData ==
    /\ gen.pc = "check_generate"
    /\ gen' = [gen EXCEPT !.pc = IF aborted \/ text_chunks[gen.i] = "failed"
                                 THEN "finally"
                                 ELSE "check_saving"]
    /\ UNCHANGED <<text_chunks, generation_metadata, aborted, data_rows, abort_snap>>
    /\ UNCHANGED notGenVars

\* abort check before saving the generated data
CheckBeforeSaving ==
    /\ gen.pc = "check_saving"
    /\ gen' = [gen EXCEPT !.pc = IF aborted THEN "finally" ELSE "row_check"]
    /\ UNCHANGED <<text_chunks, generation_metadata, aborted, data_rows, abort_snap>>
    /\ UNCHANGED notGenVars

\* for qa_pair in formatted_conversation_list: abort check before each update
RowCheck ==
    /\ gen.pc = "row_check"
    /\ gen' = [gen EXCEPT !.pc = IF gen.r = RowsOf(gen.i) \/ aborted
                                 THEN "check_after_unit"
                                 ELSE "row_save"]
    /\ UNCHANGED <<text_chunks, generation_metadata, aborted, data_rows, abort_snap>>
    /\ UNCHANGED notGenVars

\* dataset_client.update_generated_data_to_dataset, then time.sleep(1)
RowSave ==
    /\ gen.pc = "row_save"
    /\ data_rows' = [data_rows EXCEPT ![gen.i] = @ + 1]
    /\ gen' = [gen EXCEPT !.r = @ + 1, !.pc = "row_check"]
    /\ UNCHANGED <<text_chunks, generation_metadata, aborted, abort_snap>>
    /\ UNCHANGED notGenVars

\* the check that leaves the outer loop when the inner one was left on abort
CheckAfterUnit ==
    /\ gen.pc = "check_after_unit"
    /\ gen' = [gen EXCEPT !.pc = IF aborted THEN "finally" ELSE "next_chunk"]
    /\ UNCHANGED <<text_chunks, generation_metadata, aborted, data_rows, abort_snap>>
    /\ UNCHANGED notGenVars

\* finally: metadata = None is stored and the generator released
Finally ==
    /\ gen.pc = "finally"
    /\ generation_metadata' = JobWrites("null")
    /\ gen' = [gen EXCEPT !.pc = "ended"]
    /\ UNCHANGED <<text_chunks, aborted, data_rows, abort_snap>>
    /\ UNCHANGED notGenVars

NextGen ==
    \/ GenerateDocumentQa
    \/ StopDataGeneration
    \/ GenJobStart
    \/ TaskCheck
    \/ TaskRaises
    \/ CheckBeforeStatus
    \/ CheckBeforeLoad
    \/ LoadModel
    \/ NextChunk
    \/ CheckMeaningful
    \/ GenerateChatData
    \/ CheckBeforeSaving
    \/ RowCheck
    \/ RowSave
    \/ CheckAfterUnit
    \/ Finally

SpecGen == InitGen /\ [][NextGen]_vars

\* C6: for a job whose model load did not fail: once the job has ended, an
\* abort set before any chunk was taken leaves generation_metadata null and
\* no row persisted, and an abort set when N >= 1 chunks were persisted
\* leaves exactly the rows of those chunks: no row of a later chunk or of the
\* chunk in progress.
C6_AbortKeepsWholeUnits ==
    (gen.pc = "ended" /\ abort_snap.set /\ gen.load # "failed") =>
        /\ ~abort_snap.in_loop =>
              /\ generation_metadata.val = "null"
              /\ \A u \in Chunks : data_rows[u] = 0
        /\ (\E u \in Chunks : abort_snap.rows[u] > 0) => data_rows = abort_snap.rows

\* C7: once the job has ended, generation_metadata does not hold a value the
\* job wrote other than null.
C7_MetadataNullAfterJob ==
    gen.pc = "ended" => ~(generation_metadata.by = "job" /\ generation_metadata.val # "null")

\* ------------------------------------------------------ deployment packager
FileSizes == 0..MaxFileSize

\* the lists of at most n file sizes
SizeLists(n) == UNION {[1..k -> FileSizes] : k \in 0..n}

RECURSIVE SumSeq(_)
SumSeq(q) == IF q = <<>> THEN 0 ELSE Head(q) + SumSeq(Tail(q))

\* _collect_source_directories and the three _add_*_files_to_zip loops: the
\* files written to the archive, in order
PackedFiles == sources.ov_model.files \o sources.deployment \o sources.chroma

\* _check_file_exists: the archive exists and the sizes of its entries sum to
\* the sizes of ./assets/deployment plus checkpoints/models
CheckFileExists ==
    /\ archive.exists
    /\ SumSeq(archive.entries) = SumSeq(sources.deployment) + sources.models

\* int(self.bytes_written / total_size * 100); the float expression equals
\* the integer quotient for every total below 40
Progress(bytes_written, total_size) == (bytes_written * 100) \div total_size

\* tasks_client.update_task(task_id, {"download_progress": v}) by `by`
Emit(v, by) == Append(progress_log, [v |-> v, by |-> by])

\* the trees before the first packaging request: checkpoints/ov_model may be
\* missing, ./assets/deployment ships with the product, the chroma store and
\* checkpoints/models hold whatever earlier jobs left
InitPack ==
    /\ TasksIdle
    /\ GenIdle
    /\ ServeIdle
    /\ \E ov \in SizeLists(MaxFiles), d \in SizeLists(1), c \in SizeLists(1), m \in FileSizes,
          e \in BOOLEAN :
          sources = [ov_model |-> [exists |-> e \/ ov # <<>>, files |-> ov],
                     deployment |-> d, chroma |-> c, models |-> m]
    /\ archive = [exists |-> FALSE, entries |-> <<>>]
    /\ pack = [pc |-> "idle", run |-> 0, idx |-> 0, bytes_written |-> 0, prev_progress |-> 0,
               total_size |-> 0, produced |-> FALSE, had_archive |-> FALSE]
    /\ progress_log = <<>>
    /\ archive_writes = 0

\* prepare_model: a new PrepareDeploymentFile; when the check fails STARTED
\* and progress 0 are stored and the archive is built, otherwise the job
\* returns True at once
PrepareModel ==
    /\ pack.pc \in {"idle", "done"}
    /\ pack.run < MaxRuns
    /\ archive_writes' = 0
    /\ pack' = [pack EXCEPT !.run = @ + 1, !.idx = 0, !.bytes_written = 0, !.prev_progress = 0,
                            !.had_archive = pack.produced,
                            !.pc = IF CheckFileExists THEN "on_success" ELSE "create_zip"]
    /\ progress_log' = IF CheckFileExists THEN <<>> ELSE <<[v |-> 0, by |-> "prepare_model"]>>
    /\ UNCHANGED <<sources, archive>>
    /\ UNCHANGED notPackVars

\* create_zip_with_progress up to zipfile.ZipFile(zip_filename, 'w'): a
\* missing ov_model directory raises, otherwise the total is computed and the
\* archive is opened for writing, which truncates it
CreateZip ==
    /\ pack.pc = "create_zip"
    /\ IF ~sources.ov_model.exists
       THEN /\ pack' = [pack EXCEPT !.pc = "on_failure"]
            /\ UNCHANGED archive
       ELSE /\ pack' = [pack EXCEPT !.pc = "zipping", !.total_size = SumSeq(PackedFiles)]
            /\ archive' = [exists |-> TRUE, entries |-> <<>>]
    /\ UNCHANGED <<sources, progress_log, archive_writes>>
    /\ UNCHANGED notPackVars

\* update_zipping_progress after bytes_written has been advanced: the new
\* prev_progress and whether the value is PATCHed; a prev_progress of 0 never
\* suppresses the update
UpdateZippingProgress(bytes_written, total_size, prev_progress) ==
    LET progress == Progress(bytes_written, total_size)
    IN [prev_progress |-> progress,
        emits |-> prev_progress = 0 \/ prev_progress # progress,
        progress |-> progress]

\* one iteration of an _add_*_files_to_zip loop: zip_file.write, then
\* update_zipping_progress, which divides by total_size
ZipWrite ==
    /\ pack.pc = "zipping"
    /\ pack.idx < Len(PackedFiles)
    /\ LET file == PackedFiles[pack.idx + 1]
           written == pack.bytes_written + file
           upd == UpdateZippingProgress(written, pack.total_size, pack.prev_progress)
       IN /\ archive' = [archive EXCEPT !.entries = Append(@, file)]
          /\ archive_writes' = archive_writes + 1
          /\ IF pack.total_size = 0
             THEN /\ pack' = [pack EXCEPT !.idx = @ + 1, !.bytes_written = written,
                                          !.pc = "on_failure"]
                  /\ UNCHANGED progress_log
             ELSE /\ pack' = [pack EXCEPT !.idx = @ + 1, !.bytes_written = written,
                                          !.prev_progress = upd.prev_progress]
                  /\ progress_log' = IF upd.emits THEN Emit(upd.progress, "zip")
                                     ELSE progress_log
    /\ UNCHANGED sources
    /\ UNCHANGED notPackVars

\* the loops are exhausted: the archive is closed and prepare_model returns True
ZipDone ==
    /\ pack.pc = "zipping"
    /\ pack.idx = Len(PackedFiles)
    /\ pack' = [pack EXCEPT !.pc = "on_success"]
    /\ UNCHANGED <<sources, archive, progress_log, archive_writes>>
    /\ UNCHANGED notPackVars

\* zip_file.write raises (disk full, file unreadable): the job fails
ZipRaises ==
    /\ pack.pc = "zipping"
    /\ pack.idx < Len(PackedFiles)
    /\ pack' = [pack EXCEPT !.pc = "on_failure"]
    /\ UNCHANGED <<sources, archive, progress_log, archive_writes>>
    /\ UNCHANGED notPackVars

\* on_prepare_success: {"download_status": "SUCCESS", "download_progress": 100}
OnPrepareSuccess ==
    /\ pack.pc = "on_success"
    /\ progress_log' = Emit(100, "on_prepare_success")
    /\ pack' = [pack EXCEPT !.pc = "done", !.produced = TRUE]
    /\ UNCHANGED <<sources, archive, archive_writes>>
    /\ UNCHANGED notPackVars

\* on_prepare_failure: {"download_status": "FAILURE", "download_progress": 0}
OnPrepareFailure ==
    /\ pack.pc = "on_failure"
    /\ progress_log' = Emit(0, "on_prepare_failure")
    /\ pack' = [pack EXCEPT !.pc = "done", !.produced = FALSE]
    /\ UNCHANGED <<sources, archive, archive_writes>>
    /\ UNCHANGED notPackVars

NextPack ==
    \/ PrepareModel
    \/ CreateZip
    \/ ZipWrite
    \/ ZipDone
    \/ ZipRaises
    \/ OnPrepareSuccess
    \/ OnPrepareFailure

SpecPack == InitPack /\ [][NextPack]_vars

\* C8: in an invocation that follows a run which produced the archive, the
\* source trees being unchanged, no file is written to the archive.
C8_SecondRunWritesNothing ==
    pack.had_archive => archive_writes = 0

\* the values PATCHed by update_zipping_progress in the current run
ZipProgress == SelectSeq(progress_log, LAMBDA e : e.by = "zip")

\* C9: the download_progress values the zipping of one run emits never
\* decrease and no value, 0 and 100 included, is emitted twice.
C9_ProgressMonotoneOnce ==
    \A i, j \in 1..Len(ZipProgress) : i < j => ZipProgress[i].v < ZipProgress[j].v

\* ------------------------------------------- serving and inference services
MIN_PORT == 1024
MAX_PORT == 65535

\* a port below the allowed range and two inside it
HostPorts == {80, 8000, 8001}

\* the two supported device profiles and an unsupported one
Devices == {"cpu", "xpu", "npu"}

\* `container_name in container.name` for the names CONTAINER_PREFIX + str(a)
\* and CONTAINER_PREFIX + str(b) of ids below 100
NameContains(a, b) == a = b \/ (b >= 10 /\ b \div 10 = a)

\* a response, with what the call met (the container of the model was running,
\* every runtime call was answered) and did (a container was created)
Resp(op, svc, id, was_running, ran, answered, status, message) ==
    [op |-> op, svc |-> svc, id |-> id, was_running |-> was_running, ran |-> ran,
     answered |-> answered, status |-> status, message |-> message]

\* DeploymentService._verify_container_existed: substring match over all containers
ServingExisted(cs, id) ==
    \E b \in ModelIds : NameContains(id, b) /\ cs[<<"serving", b>>] # "absent"

\* DeploymentService._verify_host_port against the records ds
PortInRange(port) == port >= MIN_PORT /\ port <= MAX_PORT

\* a port check that never finds the port taken
PortFreeAlways(ds, port) == TRUE

PortFree(ds, port) == \A d \in ds : d.host_port # port

\* a delete_deployment that touches nothing
DeleteDeploymentOnSkipped(cs, ds, id, dockerOk, dbOk) ==
    [containers |-> cs, deployments |-> ds, status |-> FALSE, message |-> ""]

\* DeploymentService.delete_deployment applied to (cs, ds): the container is
\* force-removed (a missing one is not an error), then the first record of
\* the model is deleted, unless the database raises and the deletion is
\* rolled back; the status and message it leaves in self.response
DeleteDeploymentOn(cs, ds, id, dockerOk, dbOk) ==
    LET present == cs[<<"serving", id>>] # "absent"
        mine == {d \in ds : d.model_id = id}
        first == CHOOSE d \in mine : \A e \in mine : d.host_port <= e.host_port
        removed == [cs EXCEPT ![<<"serving", id>>] = "absent"]
    IN IF present /\ ~dockerOk
       THEN [containers |-> cs, deployments |-> ds, status |-> FALSE,
             message |-> "Failed to stop the inference node container"]
       ELSE IF mine = {}
       THEN [containers |-> removed, deployments |-> ds, status |-> FALSE,
             message |-> "Failed to find deployment entries"]
       ELSE IF ~dbOk
       THEN [containers |-> removed, deployments |-> ds, status |-> FALSE,
             message |-> "Failed to delete deployment record"]
       ELSE [containers |-> removed, deployments |-> ds \ {first}, status |-> TRUE,
             message |-> "Successfully deleted inference node container"]

\* the weights and the image are installed or not; nothing runs yet
InitServe ==
    /\ TasksIdle
    /\ GenIdle
    /\ PackIdle
    /\ containers = [c \in Services \X ModelIds |-> "absent"]
    /\ deployments = {}
    /\ weights \in SUBSET ModelIds
    /\ image \in BOOLEAN
    /\ response = NoResponse
    /\ runtime = NoCalls

\* the call, when the request reaches it
Issued(reached, call) == IF reached THEN {call} ELSE {}

\* what the container runtime does to one request: it answers every call, or
\* one kind of call raises or times out
RuntimeFaults == {"none", "containers.get", "containers.remove", "containers.run"}

\* what the database does to one request: the deletion of a record or the
\* insertion of one raises at commit
DbFaults == {"db.delete", "db.add"}

\* DeploymentService.create_deployment(model_id, host_port, device); getOk,
\* rmOk and runOk say whether containers.get in _verify_container_running,
\* the removal in delete_deployment and containers.run are answered, delOk
\* and addOk whether the deletion and the insertion of the record commit
CreateDeploymentWith(faults) ==
    \E id \in ModelIds, port \in HostPorts, device \in Devices, fault \in faults :
        LET getOk == fault # "containers.get"
            rmOk == fault # "containers.remove"
            runOk == fault # "containers.run"
            delOk == fault # "db.delete"
            addOk == fault # "db.add"
            mine == {d \in deployments : d.model_id = id}
            was_running == containers[<<"serving", id>>] = "running"
            present == containers[<<"serving", id>>] # "absent"
            existed == ServingExisted(containers, id)
            running == getOk /\ was_running
            checked == id \in weights /\ image
            recreate == checked /\ existed /\ ~running
            after == IF recreate
                     THEN DeleteDeploymentOn(containers, deployments, id, rmOk, delOk)
                     ELSE [containers |-> containers, deployments |-> deployments,
                           status |-> FALSE, message |-> ""]
            deleting == recreate /\ (present => rmOk) /\ mine # {}
            conflict == after.containers[<<"serving", id>>] # "absent"
            reached == /\ checked
                       /\ ~(existed /\ running)
                       /\ PortInRange(port) /\ PortFree(after.deployments, port)
                       /\ device \in {"cpu", "xpu"}
            started == reached /\ runOk /\ ~conflict
            recorded == started /\ addOk
            R(status, message) == Resp("start", "serving", id, was_running, started,
                                       getOk /\ rmOk /\ runOk, status, message)
        IN /\ containers' = IF started
                            THEN [after.containers EXCEPT ![<<"serving", id>>] = "running"]
                            ELSE after.containers
           /\ deployments' = IF recorded
                             THEN after.deployments \cup {[model_id |-> id, host_port |-> port]}
                             ELSE after.deployments
           /\ response' =
                 IF id \notin weights THEN R(FALSE, "Model weight file not found")
                 ELSE IF ~image THEN R(FALSE, "Serving service is not available")
                 ELSE IF existed /\ running THEN R(FALSE, "already running")
                 ELSE IF ~PortInRange(port) THEN R(after.status, "Port is not in range")
                 ELSE IF ~PortFree(after.deployments, port)
                      THEN R(after.status, "Port is already in use")
                 ELSE IF device \notin {"cpu", "xpu"} THEN R(FALSE, "Device is not supported")
                 ELSE IF ~runOk \/ conflict THEN R(after.status, "docker error")
                 ELSE IF ~addOk THEN R(FALSE, "Failed to create deployment record")
                 ELSE R(TRUE, "started successfully")
           /\ runtime' =
                 [calls |-> Issued(id \in weights, "images.get")
                            \cup Issued(checked, "containers.list")
                            \cup Issued(checked /\ existed, "containers.get")
                            \cup Issued(recreate /\ present, "containers.remove")
                            \cup Issued(reached, "containers.run"),
                  failed |-> Issued(checked /\ existed /\ ~getOk, "containers.get")
                             \cup Issued(recreate /\ present /\ ~rmOk, "containers.remove")
                             \cup Issued(reached /\ ~runOk, "containers.run")
                             \cup Issued(deleting /\ ~delOk, "db.delete")
                             \cup Issued(started /\ ~addOk, "db.add"),
                  device |-> IF reached THEN device ELSE "none"]

\* POST /v1/deployments with the database answering
CreateDeployment ==
    /\ CreateDeploymentWith(RuntimeFaults)
    /\ UNCHANGED <<weights, image>>
    /\ UNCHANGED notServeVars

\* POST /v1/deployments with a database operation raising
CreateDeploymentDb ==
    /\ CreateDeploymentWith(DbFaults)
    /\ UNCHANGED <<weights, image>>
    /\ UNCHANGED notServeVars

\* DELETE /v1/deployments/{id}: DeploymentService.delete_deployment
DeleteDeploymentWith(dbOk) ==
    \E id \in ModelIds, rmOk \in BOOLEAN :
        LET after == DeleteDeploymentOn(containers, deployments, id, rmOk, dbOk)
            present == containers[<<"serving", id>>] # "absent"
            mine == {d \in deployments : d.model_id = id}
        IN /\ containers' = after.containers
           /\ deployments' = after.deployments
           /\ response' = Resp("stop", "serving", id, containers[<<"serving", id>>] = "running",
                               FALSE, rmOk, after.status, after.message)
           /\ runtime' = [calls |-> {"containers.get"} \cup Issued(present, "containers.remove"),
                          failed |-> Issued(present /\ ~rmOk, "containers.remove")
                                     \cup Issued((present => rmOk) /\ mine # {} /\ ~dbOk,
                                                 "db.delete"),
                          device |-> "none"]

\* DELETE /v1/deployments/{id} with the database answering
DeleteDeployment ==
    /\ DeleteDeploymentWith(TRUE)
    /\ UNCHANGED <<weights, image>>
    /\ UNCHANGED notServeVars

\* DELETE /v1/deployments/{id} with the deletion of the record raising
DeleteDeploymentDb ==
    /\ DeleteDeploymentWith(FALSE)
    /\ UNCHANGED <<weights, image>>
    /\ UNCHANGED notServeVars

\* OpenAIInferenceService.get_running_services: every evaluation container
RunningServices(cs) == {b \in ModelIds : cs[<<"evaluation", b>>] # "absent"}

\* OpenAIInferenceService.create_inference_service(id, device); getOk, rmOk
\* and runOk say whether the status query, the removal of a container and
\* the creation are answered within the timeout
CreateInferenceService ==
    \E id \in ModelIds, device \in Devices, fault \in RuntimeFaults :
        LET getOk == fault # "containers.get"
            rmOk == fault # "containers.remove"
            runOk == fault # "containers.run"
            name == <<"evaluation", id>>
            was_running == containers[name] = "running"
            existed == containers[name] # "absent"
            running == getOk /\ was_running
            checked == id \in weights /\ image
            services == RunningServices(containers)
            other == CHOOSE b \in services : TRUE
            removes == checked /\ services # {} /\ ~(existed /\ running)
            removeFails == removes /\ ~existed /\ ~rmOk
            after == IF ~removes \/ ~rmOk
                     THEN containers
                     ELSE IF existed THEN [containers EXCEPT ![name] = "absent"]
                     ELSE [containers EXCEPT ![<<"evaluation", other>>] = "absent"]
            conflict == after[name] # "absent"
            reached == /\ checked /\ ~(existed /\ running) /\ ~removeFails
                       /\ device \in {"cpu", "xpu"}
            started == reached /\ runOk /\ ~conflict
            R(status, message) == Resp("start", "evaluation", id, was_running, started,
                                       getOk /\ rmOk /\ runOk, status, message)
        IN /\ containers' = IF started THEN [after EXCEPT ![name] = "running"] ELSE after
           /\ response' =
                 IF id \notin weights THEN R(FALSE, "Model weight file not found")
                 ELSE IF ~image THEN R(FALSE, "Serving service is not available")
                 ELSE IF services # {} /\ existed /\ running THEN R(TRUE, "already running")
                 ELSE IF removeFails THEN R(FALSE, "Failed to remove existing container")
                 ELSE IF device \notin {"cpu", "xpu"} THEN R(FALSE, "Device is not supported")
                 ELSE IF ~runOk \/ conflict THEN R(FALSE, "docker error")
                 ELSE R(TRUE, "started successfully")
           /\ runtime' =
                 [calls |-> Issued(id \in weights, "images.get")
                            \cup Issued(checked, "containers.list")
                            \cup Issued(checked /\ existed, "containers.get")
                            \cup Issued(removes, "containers.remove")
                            \cup Issued(reached, "containers.run"),
                  failed |-> Issued(checked /\ existed /\ ~getOk, "containers.get")
                             \cup Issued(removes /\ ~rmOk, "containers.remove")
                             \cup Issued(reached /\ ~runOk, "containers.run"),
                  device |-> IF reached THEN device ELSE "none"]
           /\ UNCHANGED <<deployments, weights, image>>
           /\ UNCHANGED notServeVars

\* OpenAIInferenceService.stop_inference_node
StopInferenceNode ==
    \E id \in ModelIds, rmOk \in BOOLEAN :
        LET name == <<"evaluation", id>>
            existed == containers[name] # "absent"
        IN /\ containers' = IF existed /\ rmOk THEN [containers EXCEPT ![name] = "absent"]
                            ELSE containers
           /\ response' = Resp("stop", "evaluation", id, containers[name] = "running", FALSE,
                               rmOk, existed /\ rmOk,
                               IF ~existed THEN "Container not found"
                               ELSE IF rmOk THEN "stopped successfully"
                               ELSE "Failed to stop inference service")
           /\ runtime' = [calls |-> {"containers.list"} \cup Issued(existed, "containers.remove"),
                          failed |-> Issued(existed /\ ~rmOk, "containers.remove"),
                          device |-> "none"]
           /\ UNCHANGED <<deployments, weights, image>>
           /\ UNCHANGED notServeVars

\* a restart that leaves the container as it found it
RestartContainerNoop(cs, id) == cs

\* DeploymentService._restart_container: containers.get(name).restart()
RestartContainer(cs, id) == [cs EXCEPT ![<<"serving", id>>] = "running"]

\* what the container runtime does to one check request
CheckFaults == {"none", "containers.get", "containers.restart"}

\* GET /v1/deployments/check_deployment/{id}: DeploymentService.check_deployment
CheckDeployment ==
    \E id \in ModelIds, fault \in CheckFaults :
        LET getOk == fault # "containers.get"
            restartOk == fault # "containers.restart"
            was_running == containers[<<"serving", id>>] = "running"
            present == containers[<<"serving", id>>] # "absent"
            existed == ServingExisted(containers, id)
            running == getOk /\ was_running
            found == existed /\ ~running /\ present /\ getOk
            restarted == found /\ restartOk
            R(status, message) == Resp("check", "serving", id, was_running, FALSE,
                                       fault = "none", status, message)
        IN /\ containers' = IF restarted THEN RestartContainer(containers, id) ELSE containers
           /\ response' =
                 IF ~existed THEN R(FALSE, "Inferencing service is not created")
                 ELSE IF running THEN R(TRUE, "up and running")
                 ELSE IF restarted THEN R(TRUE, "started successfully")
                 ELSE R(FALSE, "Failed to restart the inference node container")
           /\ runtime' =
                 [calls |-> {"containers.list"}
                            \cup Issued(existed, "containers.get")
                            \cup Issued(found, "containers.restart"),
                  failed |-> Issued(existed /\ ~getOk, "containers.get")
                             \cup Issued(found /\ ~restartOk, "containers.restart"),
                  device |-> "none"]
           /\ UNCHANGED <<deployments, weights, image>>
           /\ UNCHANGED notServeVars

\* the process inside a container exits: the container stays, not running
ContainerExits ==
    \E c \in Services \X ModelIds :
        /\ containers[c] = "running"
        /\ containers' = [containers EXCEPT ![c] = "stopped"]
        /\ UNCHANGED <<deployments, weights, image, response, runtime>>
        /\ UNCHANGED notServeVars

NextServe ==
    \/ CreateDeployment
    \/ DeleteDeployment
    \/ CreateInferenceService
    \/ StopInferenceNode
    \/ CheckDeployment
    \/ ContainerExits

SpecServe == InitServe /\ [][NextServe]_vars

\* C10: a start call for a model whose container existed and was running,
\* every runtime call of which was answered, creates no container and answers
\* status false with the message that the service is already running.
C10_SecondStartFailsFast ==
    (response.op = "start" /\ response.was_running /\ response.answered) =>
        /\ ~response.ran
        /\ response.status = FALSE
        /\ response.message = "already running"

\* C11: a start call of the DeploymentService that is refused because the
\* host port is recorded by a deployment record of another model has issued
\* no call to the container runtime and has left the containers and the
\* deployment records as they were.
C11_PortConflictBeforeRuntime ==
    [][(/\ CreateDeployment
        /\ response'.message = "Port is already in use"
        /\ \A d \in deployments' : d.model_id # response'.id)
       => (/\ runtime'.calls = {}
           /\ containers' = containers
           /\ deployments' = deployments)]_vars

\* ------------------------------------------- serving while a training job runs
\* the state the task routes and the worker reach by CreateTask, JobStart and
\* TrainingStarted: job 1 trains task 1 on worker w1 and holds the marker;
\* the weights of both models and the serving image are installed
InitTraining ==
    /\ AdmitIdle
    /\ GenIdle
    /\ PackIdle
    /\ tasks = [t \in TaskIds |->
                  IF t = 1 THEN [exists |-> TRUE, status |-> "STARTED",
                                 results |-> EmptyDict, celery_task_id |-> 1]
                  ELSE NoTask]
    /\ jobs = [j \in JobIds |->
                 IF j = 1 THEN [task |-> 1, place |-> "running", state |-> "STARTED",
                                revoked |-> FALSE, route |-> TrainerRoute]
                 ELSE NoJob]
    /\ running_task = [task_id |-> 1, celery_task_id |-> 1]
    /\ worker = [w \in Workers |->
                   IF w = "w1" THEN [up |-> TRUE, job |-> 1, pc |-> "running"] ELSE Idle]
    /\ srv = [pc |-> "idle", task |-> 0, job |-> 0]
    /\ patch_log = <<>>
    /\ oom_reported = {}
    /\ containers = [c \in Services \X ModelIds |-> "absent"]
    /\ deployments = {}
    /\ weights = ModelIds
    /\ image = TRUE
    /\ response = NoResponse
    /\ runtime = NoCalls

\* start, stop and container exits while the job trains, until it ends
NextTraining ==
    \/ NextServe
    \/ TrainingSucceeds

SpecTraining == InitTraining /\ [][NextTraining]_vars

\* the job named by the marker is still executing on a worker
TrainingHoldsMarker ==
    /\ running_task.celery_task_id \in JobIds
    /\ jobs[running_task.celery_task_id].place = "running"

\* C12: while the training job named by RunningTaskMarker is running, no start
\* call with device "xpu" has created a container.
C12_NoAcceleratorStartWhileTraining ==
    (TrainingHoldsMarker /\ response.op = "start" /\ runtime.device = "xpu") => ~response.ran

\* C13: a stop call for a model that has no container answers status true
\* and leaves the containers and the deployment records as they were.
C13_StopIsIdempotent ==
    [][(/\ StopInferenceNode \/ DeleteDeployment
        /\ containers[<<response'.svc, response'.id>>] = "absent")
       => (/\ response'.status = TRUE
           /\ containers' = containers
           /\ deployments' = deployments)]_vars

\* ------------------------------------------------- deployments: check and heal
\* the deployment routes alone, with the weights of both models and the
\* serving image installed
InitCheck ==
    /\ TasksIdle
    /\ GenIdle
    /\ PackIdle
    /\ containers = [c \in Services \X ModelIds |-> "absent"]
    /\ deployments = {}
    /\ weights = ModelIds
    /\ image = TRUE
    /\ response = NoResponse
    /\ runtime = NoCalls

NextCheck ==
    \/ CreateDeployment
    \/ DeleteDeployment
    \/ CheckDeployment
    \/ ContainerExits

SpecCheck == InitCheck /\ [][NextCheck]_vars

\* C14: a check call removes no container, creates none, issues neither a
\* removal nor a creation and leaves the deployment records alone; when the
\* runtime answers its calls, a stopped container of the model is restarted
\* and status true is answered, a running one is left as it is and status true
\* is answered, and without a container of the model nothing changes and
\* status false is answered.
C14_CheckHealsInPlace ==
    [][CheckDeployment =>
         LET c == <<"serving", response'.id>>
         IN /\ deployments' = deployments
            /\ \A k \in DOMAIN containers :
                  (containers[k] = "absent") <=> (containers'[k] = "absent")
            /\ runtime'.calls \cap {"containers.remove", "containers.run"} = {}
            /\ runtime'.failed = {} =>
                 /\ containers[c] = "stopped" =>
                      /\ containers' = [containers EXCEPT ![c] = "running"]
                      /\ "containers.restart" \in runtime'.calls
                      /\ response'.status = TRUE
                 /\ containers[c] = "running" =>
                      /\ containers' = containers
                      /\ response'.status = TRUE
                 /\ containers[c] = "absent" =>
                      /\ containers' = containers
                      /\ response'.status = FALSE]_vars

\* a check call found the container of the model stopped and restarted it
C14_Witness ==
    /\ response.op = "check"
    /\ ~response.was_running
    /\ response.status = TRUE
    /\ "containers.restart" \in runtime.calls
    /\ containers[<<"serving", response.id>>] = "running"

\* ------------------------------------------ llm-finetuning-node: training worker
\* model_finetuning jobs of one task wait on training_queue; the task row
\* holds the handle of the last one published
InitFinetune ==
    /\ AdmitIdle
    /\ GenIdle
    /\ PackIdle
    /\ ServeIdle
    /\ tasks = [t \in TaskIds |->
                  IF t = 1 THEN [exists |-> TRUE, status |-> "PENDING",
                                 results |-> EmptyDict, celery_task_id |-> MaxJobs]
                  ELSE NoTask]
    /\ running_task = [task_id |-> 0, celery_task_id |-> 0]
    /\ jobs = [j \in JobIds |->
                 [task |-> 1, place |-> "queued", state |-> "PENDING", revoked |-> FALSE,
                  route |-> FinetuneRoute]]
    /\ worker = [w \in Workers |-> Idle]
    /\ srv = [pc |-> "idle", task |-> 0, job |-> 0]
    /\ patch_log = <<>>
    /\ oom_reported = {}

FinetuneStageMsg == "Starting Synthetic Validation & Test Dataset Generation"

\* TasksService.update_task of the worker: requests.patch(url, data); the
\* record store applies the PATCH when it is reachable
ClientUpdateTask(store, id, data, reachable) ==
    IF reachable THEN UpdateTask(store, id, data) ELSE store

\* a worker takes the oldest queued job; the backend tracks it as STARTED
\* (task_track_started); the task registers no before_start hook
FinetuneStart ==
    \E w \in Workers, j \in JobIds :
        /\ worker[w] = Idle
        /\ jobs[j].place = "queued"
        /\ jobs[j].route = FinetuneRoute
        /\ \A i \in JobIds : i < j => ~(jobs[i].place = "queued" /\ jobs[i].route = FinetuneRoute)
        /\ jobs' = [jobs EXCEPT ![j].place = "running", ![j].state = "STARTED"]
        /\ worker' = [worker EXCEPT ![w] = [up |-> TRUE, job |-> j, pc |-> "ft_begin"]]
        /\ UNCHANGED <<tasks, running_task, srv, patch_log, oom_reported>>
        /\ UNCHANGED notTaskVars

\* model_finetuning: tasks_client.update_task(task_id, {"status": "STARTED"});
\* requests raises ConnectionError when the record store is unreachable
FinetunePatchStarted ==
    \E w \in Workers, reachable \in BOOLEAN :
        /\ worker[w].pc = "ft_begin"
        /\ tasks' = ClientUpdateTask(tasks, jobs[worker[w].job].task,
                                     [status |-> "STARTED"], reachable)
        /\ worker' = [worker EXCEPT ![w].pc = IF reachable THEN "ft_started"
                                              ELSE "ft_callback_raised"]
        /\ UNCHANGED <<running_task, jobs, srv, patch_log, oom_reported>>
        /\ UNCHANGED notTaskVars

\* model_finetuning: asyncio.run(on_training_callback(task_id, {"results":
\* {"stage": ...}})), which is get_task followed by update_task
FinetuneStageCallback ==
    \E w \in Workers, reachable \in BOOLEAN :
        /\ worker[w].pc = "ft_started"
        /\ tasks' = ClientUpdateTask(tasks, jobs[worker[w].job].task,
                                     [results |-> [stage |-> FinetuneStageMsg]], reachable)
        /\ worker' = [worker EXCEPT ![w].pc = IF reachable THEN "ft_training"
                                              ELSE "ft_callback_raised"]
        /\ UNCHANGED <<running_task, jobs, srv, patch_log, oom_reported>>
        /\ UNCHANGED notTaskVars

\* the exception of the PATCH leaves model_finetuning: the backend records
\* FAILURE and on_training_failure PATCHes the task once more
FinetuneCallbackRaised ==
    \E w \in Workers, reachable \in BOOLEAN :
        /\ worker[w].pc = "ft_callback_raised"
        /\ tasks' = ClientUpdateTask(tasks, jobs[worker[w].job].task,
                                     [status |-> "FAILURE", results |-> [status |-> FailureMsg]],
                                     reachable)
        /\ jobs' = [jobs EXCEPT ![worker[w].job] = Gone(worker[w].job, "FAILURE")]
        /\ worker' = [worker EXCEPT ![w] = Idle]
        /\ UNCHANGED <<running_task, srv, patch_log, oom_reported>>
        /\ UNCHANGED notTaskVars

\* the dataset and training subprocesses end with exit code 0: the backend
\* records SUCCESS and on_training_success PATCHes the task
FinetuneSucceeds ==
    \E w \in Workers, reachable \in BOOLEAN :
        /\ worker[w].pc = "ft_training"
        /\ tasks' = ClientUpdateTask(tasks, jobs[worker[w].job].task,
                                     [status |-> "SUCCESS"], reachable)
        /\ jobs' = [jobs EXCEPT ![worker[w].job] = Gone(worker[w].job, "SUCCESS")]
        /\ worker' = [worker EXCEPT ![w] = Idle]
        /\ UNCHANGED <<running_task, srv, patch_log, oom_reported>>
        /\ UNCHANGED notTaskVars

\* a subprocess fails (CalledProcessError): model_finetuning raises
\* RuntimeError, the backend records FAILURE, on_training_failure PATCHes
FinetuneFails ==
    \E w \in Workers, reachable \in BOOLEAN :
        /\ worker[w].pc = "ft_training"
        /\ tasks' = ClientUpdateTask(tasks, jobs[worker[w].job].task,
                                     [status |-> "FAILURE", results |-> [status |-> FailureMsg]],
                                     reachable)
        /\ jobs' = [jobs EXCEPT ![worker[w].job] = Gone(worker[w].job, "FAILURE")]
        /\ worker' = [worker EXCEPT ![w] = Idle]
        /\ UNCHANGED <<running_task, srv, patch_log, oom_reported>>
        /\ UNCHANGED notTaskVars

NextFinetune ==
    \/ FinetuneStart
    \/ FinetunePatchStarted
    \/ FinetuneStageCallback
    \/ FinetuneCallbackRaised
    \/ FinetuneSucceeds
    \/ FinetuneFails

SpecFinetune == InitFinetune /\ [][NextFinetune]_vars

\* C15: a job whose PATCH to the record store has just failed is not turned
\* into FAILURE by the step that follows the failed PATCH.
C15_CallbackFailureSpared ==
    [][\A w \in Workers :
          worker[w].pc = "ft_callback_raised" =>
              jobs'[worker[w].job].state # "FAILURE"]_vars

\* ------------------------------------------------------- tasks: create and delete
\* the task routes and the worker without reboot and progress reports: tasks
\* are created, restarted and deleted while their jobs wait, run, end or lose
\* their worker
NextDelete ==
    \/ CreateTask
    \/ RestartSend
    \/ RestartUpdate
    \/ DeleteTask
    \/ RevokeDelivered
    \/ JobStart
    \/ TrainingStarted
    \/ TrainingSucceeds
    \/ TrainingFails
    \/ WorkerKilled

SpecDelete == InitTasks /\ [][NextDelete]_vars

\* C16: a delete call can be made for every existing task whatever the
\* workers do; its step broadcasts the revoke of the recorded handle unless
\* that job has ended, stores status REVOKED in the task row and nothing
\* else, and moves no job and no worker.
C16_DeleteRevokesWithoutWaiting ==
    /\ []((\E t \in TaskIds : tasks[t].exists) => ENABLED DeleteTask)
    /\ [][DeleteTask =>
            \E t \in TaskIds :
                LET h == tasks[t].celery_task_id
                IN /\ tasks[t].exists
                   /\ tasks' = [tasks EXCEPT ![t].status = "REVOKED"]
                   /\ worker' = worker
                   /\ \A j \in JobIds : jobs'[j].place = jobs[j].place
                   /\ (h # 0 /\ jobs[h].place # "gone") => jobs'[h].revoked]_vars

\* a task is stored REVOKED while its job, asked to stop, still runs
C16_Witness ==
    \E t \in TaskIds :
        /\ tasks[t].exists
        /\ tasks[t].status = "REVOKED"
        /\ tasks[t].celery_task_id # 0
        /\ jobs[tasks[t].celery_task_id].revoked
        /\ jobs[tasks[t].celery_task_id].place = "running"

\* C17: a request of the inference service one of whose container-runtime
\* calls was not answered within the timeout answers status false.
C17_TimeoutSurfacedAsFailure ==
    (response.svc = "evaluation" /\ runtime.failed # {}) => response.status = FALSE

\* C18: generation_metadata is non-null exactly while the generation job of
\* the dataset is queued or running.
C18_MetadataIsRunningSignal ==
    (gen.pc \notin {"none", "ended"}) <=> (generation_metadata.val # "null")

C20_MarkerNamesStartedJob ==
    \A w \in Workers :
        worker[w].pc \in {"running", "reported", "ft_started", "ft_training"} =>
            running_task = [task_id |-> jobs[worker[w].job].task,
                            celery_task_id |-> worker[w].job]

\* the messages with which create_deployment refuses a request for its
\* weights, image, port or device
StartRefusals ==
    {"Model weight file not found", "Serving service is not available",
     "Port is not in range", "Port is already in use", "Device is not supported"}

C22_UnitFailureKeepsLoopGoing ==
    (gen.pc = "ended" /\ gen.load = "ok" /\ ~aborted) => gen.i = MaxChunks

\* ------------------------------- task routes and the llm-finetuning-node worker
\* task 1 is PENDING with a model_finetuning job waiting on training_queue;
\* the server has published nothing yet
InitDispatch ==
    /\ AdmitIdle
    /\ GenIdle
    /\ PackIdle
    /\ ServeIdle
    /\ tasks = [t \in TaskIds |->
                  IF t = 1 THEN [exists |-> TRUE, status |-> "PENDING",
                                 results |-> EmptyDict, celery_task_id |-> 1]
                  ELSE NoTask]
    /\ running_task = [task_id |-> 0, celery_task_id |-> 0]
    /\ jobs = [j \in JobIds |->
                 IF j = 1 THEN [task |-> 1, place |-> "queued", state |-> "PENDING",
                                revoked |-> FALSE, route |-> FinetuneRoute]
                 ELSE NoJob]
    /\ worker = [w \in Workers |-> Idle]
    /\ srv = [pc |-> "idle", task |-> 0, job |-> 0]
    /\ patch_log = <<>>
    /\ oom_reported = {}

\* the steps of the training worker
FinetuneWorker ==
    \/ FinetuneStart
    \/ FinetunePatchStarted
    \/ FinetuneStageCallback
    \/ FinetuneCallbackRaised
    \/ FinetuneSucceeds
    \/ FinetuneFails

\* restart and delete requests of the server beside the training worker
NextDispatch ==
    \/ RestartSend
    \/ RestartUpdate
    \/ DeleteTask
    \/ RevokeDelivered
    \/ FinetuneWorker

\* the worker is live and takes every job delivered to it; the server
\* completes the requests it has begun
SpecDispatch ==
    /\ InitDispatch
    /\ [][NextDispatch]_vars
    /\ WF_vars(FinetuneWorker)
    /\ WF_vars(RevokeDelivered)
    /\ WF_vars(RestartUpdate)

NextStore ==
    \/ CreateDeployment
    \/ CreateDeploymentDb
    \/ DeleteDeployment
    \/ DeleteDeploymentDb
    \/ ContainerExits

\* start and stop requests served one after the other, the container runtime
\* and the database failing at will
SpecStore == InitCheck /\ [][NextStore]_vars

\* C24: every deployment record has its host port in MIN_PORT..MAX_PORT and
\* no two records have the same host port; a start request adds a record
\* only for a port in that range that no record present at the request holds.
C24_PortsArbitrated ==
    /\ [](\A d \in deployments :
            /\ PortInRange(d.host_port)
            /\ \A e \in deployments : e # d => e.host_port # d.host_port)
    /\ [][\A d \in deployments' \ deployments :
            /\ PortInRange(d.host_port)
            /\ \A e \in deployments : e.host_port # d.host_port]_vars

\* a start request has been refused for a port that a record holds
C24_Witness ==
    /\ response.op = "start"
    /\ response.svc = "serving"
    /\ response.message = "Port is already in use"
    /\ ~response.ran
    /\ deployments # {}

\* C25: a start call of the DeploymentService answers status true only when
\* that call has launched a container and the model has a deployment record.
C25_StatusTrueOnlyWhenStarted ==
    [][((CreateDeployment \/ CreateDeploymentDb) /\ response'.status = TRUE)
       => (/\ response'.ran
           /\ \E d \in deployments' : d.model_id = response'.id)]_vars

\* C26: a serving container of a model exists only if the model has a
\* deployment record.
C26_ContainerHasRecord ==
    \A m \in ModelIds :
        containers[<<"serving", m>>] # "absent" => \E d \in deployments : d.model_id = m

\* C27: while no restart request is being served, no step changes the status
\* of a task that is REVOKED: neither a write of a training job nor the
\* report of the scan at worker start.
C27_RevokedIsAbsorbing ==
    [][\A t \in TaskIds :
         (tasks[t].exists /\ tasks[t].status = "REVOKED" /\ srv.pc = "idle")
         => tasks'[t].status = "REVOKED"]_vars

\* ------------------------------------- task creation beside evaluation containers
\* nothing runs; the weights of both models and the serving image are
\* installed; the host has storage, the dataset and its export, or not
InitAdmit ==
    /\ GenIdle
    /\ PackIdle
    /\ host \in Hosts
    /\ create_response = "none"
    /\ inflight = [r \in Requests |-> NoRequest]
    /\ tasks = [t \in TaskIds |-> NoTask]
    /\ running_task = [task_id |-> 0, celery_task_id |-> 0]
    /\ jobs = [j \in JobIds |-> NoJob]
    /\ worker = [w \in Workers |-> [up |-> TRUE, job |-> 0, pc |-> "idle"]]
    /\ srv = [pc |-> "idle", task |-> 0, job |-> 0]
    /\ patch_log = <<>>
    /\ oom_reported = {}
    /\ containers = [c \in Services \X ModelIds |-> "absent"]
    /\ deployments = {}
    /\ weights = ModelIds
    /\ image = TRUE
    /\ response = NoResponse
    /\ runtime = NoCalls

NextAdmit ==
    \/ CreateInferenceService
    \/ StopInferenceNode
    \/ ContainerExits
    \/ CreateTask

SpecAdmit == InitAdmit /\ [][NextAdmit]_vars

\* C29: when create_task has published the training job, no container
\* started by start_inference_node exists.
C29_NoEvaluationContainerAtDispatch ==
    [][(CreateTask /\ create_response' = "created")
       => \A b \in ModelIds : containers'[<<"evaluation", b>>] = "absent"]_vars

\* ----------------------------------- start_inference_node requests in parallel
\* create_inference_service up to `running_services = await
\* self.get_running_services()`: the request is refused for missing weights
\* or a missing image, or holds the list of evaluation containers it has read
StartInferenceList ==
    \E r \in Requests, id \in ModelIds :
        /\ inflight[r].pc = "idle"
        /\ IF id \in weights /\ image
           THEN /\ inflight' = [inflight EXCEPT ![r] =
                                  [pc |-> "listed", id |-> id,
                                   services |-> RunningServices(containers)]]
                /\ UNCHANGED <<response, runtime>>
           ELSE /\ response' = Resp("start", "evaluation", id,
                                    containers[<<"evaluation", id>>] = "running", FALSE, TRUE, FALSE,
                                    IF id \notin weights THEN "Model weight file not found"
                                    ELSE "Serving service is not available")
                /\ runtime' = [calls |-> Issued(id \in weights, "images.get"),
                               failed |-> {}, device |-> "none"]
                /\ UNCHANGED inflight
        /\ UNCHANGED <<containers, deployments, weights, image, host, create_response>>
        /\ UNCHANGED <<taskVars, genVars, packVars>>

\* the rest of create_inference_service, acting on the list read before: the
\* request's own container is found running, or is removed when stopped;
\* else the first listed container is removed; then the new container is
\* created and started on DEFAULT_PORT, which fails to start while another
\* evaluation container runs on that port
StartInferenceRun ==
    \E r \in Requests, device \in Devices :
        /\ inflight[r].pc = "listed"
        /\ LET id == inflight[r].id
               name == <<"evaluation", id>>
               services == inflight[r].services
               existed == containers[name] # "absent"
               was_running == containers[name] = "running"
               found == services # {} /\ existed /\ was_running
               others == IF services # {} /\ ~existed THEN services ELSE {0}
           IN \E other \in others :
                LET gone == other # 0 /\ containers[<<"evaluation", other>>] = "absent"
                    after == IF services = {} \/ found \/ gone THEN containers
                             ELSE IF existed THEN [containers EXCEPT ![name] = "absent"]
                             ELSE [containers EXCEPT ![<<"evaluation", other>>] = "absent"]
                    reached == ~found /\ ~gone /\ device \in {"cpu", "xpu"}
                    conflict == after[name] # "absent"
                    port_taken == \E b \in ModelIds : after[<<"evaluation", b>>] = "running"
                    created == reached /\ ~conflict
                    started == created /\ ~port_taken
                IN /\ containers' = IF started THEN [after EXCEPT ![name] = "running"]
                                    ELSE IF created THEN [after EXCEPT ![name] = "stopped"]
                                    ELSE after
                   /\ response' = Resp("start", "evaluation", id, was_running, started, TRUE,
                                       found \/ started,
                                       IF found THEN "already running"
                                       ELSE IF gone THEN "Failed to remove existing container"
                                       ELSE IF device \notin {"cpu", "xpu"}
                                            THEN "Device is not supported"
                                       ELSE IF ~started THEN "docker error"
                                       ELSE "started successfully")
                   /\ runtime' = [calls |-> {"images.get", "containers.list"}
                                            \cup Issued(services # {} /\ existed, "containers.get")
                                            \cup Issued(services # {} /\ ~found, "containers.remove")
                                            \cup Issued(reached, "containers.run"),
                                  failed |-> Issued(gone, "containers.remove")
                                             \cup Issued(reached /\ ~started, "containers.run"),
                                  device |-> IF reached THEN device ELSE "none"]
        /\ inflight' = [inflight EXCEPT ![r] = NoRequest]
        /\ UNCHANGED <<deployments, weights, image, host, create_response>>
        /\ UNCHANGED <<taskVars, genVars, packVars>>

NextEval ==
    \/ StartInferenceList
    \/ StartInferenceRun
    \/ StopInferenceNode
    \/ ContainerExits

\* start requests in parallel with each other and with stop requests
SpecEval == InitCheck /\ [][NextEval]_vars

\* C28: when no start request is in flight, at most one evaluation container
\* exists.
C28_AtMostOneEvaluationContainer ==
    (\A r \in Requests : inflight[r].pc = "idle")
    => Cardinality(RunningServices(containers)) <= 1

=============================================================================
